---------------------------- MODULE Spec2Model ----------------------------
(***************************************************************************)
(* GyroMaze: the procedural level generator of src/maze_generator.py.      *)
(*                                                                         *)
(* The model follows one call of create_randomized_level(level_number) or  *)
(* one direct use of MazeGenerator(width, height).generate(p) from its     *)
(* entry to its return.  Every random outcome (random.shuffle,             *)
(* random.randrange) is a nondeterministic choice.                         *)
(*                                                                         *)
(* Coordinates keep the source's conventions: a lattice cell is <<r, c>>,  *)
(* a tile coordinate is <<x, y>> and a grid is indexed layout[y][x], rows  *)
(* and columns counted from 0.                                             *)
(***************************************************************************)
EXTENDS Integers, Sequences, FiniteSets, TLC

(* ------------------------------ bounds -------------------------------- *)
\* Largest column / row count of a catalog template's layout.
MaxWidth == 4
MaxHeight == 4
\* Largest width / height handed directly to MazeGenerator.
MaxGenWidth == 6
MaxGenHeight == 4

(* --------------------------- program constants ------------------------ *)
W == "W"
PATH == " "
P == "P"
E == "E"
\* Python's None
None == [none |-> TRUE]

\* len(ALL_LEVELS): LEVEL_1 .. LEVEL_10
NumLevels == 10
\* the literal upper limit in get_level
GetLevelMax == 10
\* time_limit of LEVEL_1 .. LEVEL_10
TimeLimits == <<60, 90, 100, 110, 120, 130, 140, 150, 160, 180>>
\* loop_probability is a multiple of 1/LoopDen; the default 0.25 is 1/4
LoopDen == 4
DefaultLoopNum == 1

\* Largest grid handed directly to _find_reachable_nodes, and the longest
\* obstacle list handed with it.
MaxSearchWidth == 3
MaxSearchHeight == 3
MaxBlocked == 1

LevelNumbers == (0 - 1) .. (NumLevels + 1)
LoopNums == 0 .. LoopDen

VARIABLES
    ALL_LEVELS,             \* the level catalog (levels.py)
    manager,                \* the GameManager object (game_manager.py)
    pc,                     \* position of the running call
    call,                   \* the entry point called and its arguments
    generator,              \* the MazeGenerator object (None before __init__)
    layout,                 \* the tile grid under construction (<<>> before)
    walls,                  \* walls of the shuffled list not yet visited
    remaining_walls,        \* walls rejected by phase 1, in rejection order
    num_loops_to_create,
    loops_done,             \* iterations of the phase 2 loop so far
    original_level,
    path_coords,
    player_pos,
    exit_pos,
    num_collectibles,
    num_obstacles,
    obstacles,
    possible_obstacle_locs,
    slot,                   \* iterations of the outer obstacle loop so far
    tries,                  \* iterations left in the inner obstacle loop
    result,                 \* the returned value once pc = "returned"
    exception               \* the exception raised once pc = "raised", or ""

genVars == <<generator, layout, walls, remaining_walls, num_loops_to_create,
             loops_done>>
planVars == <<original_level, path_coords, player_pos, exit_pos,
              num_collectibles, num_obstacles, obstacles,
              possible_obstacle_locs, slot, tries>>
vars == <<ALL_LEVELS, manager, pc, call, genVars, planVars, result,
         exception>>

(* ------------------------------ helpers ------------------------------- *)
Range(s) == {s[i] : i \in DOMAIN s}

\* len() of a Python list modelled as a function on 0..n-1
PyLen(f) == Cardinality(DOMAIN f)

\* all orders random.shuffle can leave the list s in
Shuffles(s) ==
    {q \in [1..Len(s) -> Range(s)] :
        \A i, j \in 1..Len(s) : i # j => q[i] # q[j]}

\* all orders of the elements of a finite set
Orders(S) ==
    {q \in [1..Cardinality(S) -> S] :
        \A i, j \in 1..Cardinality(S) : i # j => q[i] # q[j]}

Min(a, b) == IF a < b THEN a ELSE b

\* a template grid: only its dimensions are read by the generator
TemplateLayout(w, h) == [r \in 0..(h - 1) |-> [c \in 0..(w - 1) |-> W]]

(* ------------------------------ levels.py ----------------------------- *)
\* variant: time_limit is filled from the level number
LevelDataTimeFromNumber(number, lay, collectibles, obs, time_limit) ==
    [number |-> number, layout |-> lay, collectibles |-> collectibles,
     obstacles |-> obs, time_limit |-> number]

\* LevelData.__init__
LevelData(number, lay, collectibles, obs, time_limit) ==
    [number |-> number, layout |-> lay, collectibles |-> collectibles,
     obstacles |-> obs, time_limit |-> time_limit]

get_level(level_number) ==
    IF 1 <= level_number /\ level_number <= GetLevelMax
    THEN ALL_LEVELS[level_number]
    ELSE None

(* --------------------------- MazeGenerator ---------------------------- *)
\* variant: the parity test is inverted
OddDimInverted(d) == IF d % 2 = 1 THEN d + 1 ELSE d

\* __init__: an even dimension is incremented
OddDim(d) == IF d % 2 = 0 THEN d + 1 ELSE d

MazeGeneratorInit(width, height) ==
    [width |-> OddDim(width), height |-> OddDim(height),
     cell_width |-> (OddDim(width) - 1) \div 2,
     cell_height |-> (OddDim(height) - 1) \div 2,
     parent |-> <<>>, rank |-> <<>>]

Cells(g) == (0..(g.cell_height - 1)) \X (0..(g.cell_width - 1))

\* variant: every cell starts with the first cell as its parent
InitializeDsuOneSet(g) ==
    [g EXCEPT !.parent = [cell \in Cells(g) |-> <<0, 0>>],
              !.rank = [cell \in Cells(g) |-> 0]]

_initialize_dsu(g) ==
    [g EXCEPT !.parent = [cell \in Cells(g) |-> cell],
              !.rank = [cell \in Cells(g) |-> 0]]

\* variant: the root is found, the parent links are left as they were
RECURSIVE FindSetWithoutCompression(_, _)
FindSetWithoutCompression(parent, cell) ==
    IF parent[cell] = cell
    THEN [parent |-> parent, ret |-> cell]
    ELSE [parent |-> parent,
          ret |-> FindSetWithoutCompression(parent, parent[cell]).ret]

\* _find_set with path compression: the new parent map and the root
RECURSIVE _find_set(_, _)
_find_set(parent, cell) ==
    IF parent[cell] = cell
    THEN [parent |-> parent, ret |-> cell]
    ELSE LET sub == _find_set(parent, parent[cell])
         IN [parent |-> [sub.parent EXCEPT ![cell] = sub.ret],
             ret |-> sub.ret]

\* variant: the roots are not swapped by rank, root2 always goes under root1
UniteWithoutRankSwap(g, cell1, cell2) ==
    LET f1 == _find_set(g.parent, cell1)
        f2 == _find_set(f1.parent, cell2)
        root1 == f1.ret
        root2 == f2.ret
    IN IF root1 # root2
       THEN LET par == [f2.parent EXCEPT ![root2] = root1]
                rnk == IF g.rank[root1] = g.rank[root2]
                       THEN [g.rank EXCEPT ![root1] = @ + 1]
                       ELSE g.rank
            IN [g |-> [g EXCEPT !.parent = par, !.rank = rnk], ret |-> TRUE]
       ELSE [g |-> [g EXCEPT !.parent = f2.parent], ret |-> FALSE]

\* variant: cell2 itself, not its root, is hung under the other root
UniteAttachingCell(g, cell1, cell2) ==
    LET f1 == _find_set(g.parent, cell1)
        f2 == _find_set(f1.parent, cell2)
        r1 == f1.ret
        r2 == f2.ret
    IN IF r1 # r2
       THEN LET root1 == IF g.rank[r1] < g.rank[r2] THEN r2 ELSE r1
                root2 == IF g.rank[r1] < g.rank[r2] THEN r1 ELSE r2
                par == [f2.parent EXCEPT ![cell2] = root1]
                rnk == IF g.rank[root1] = g.rank[root2]
                       THEN [g.rank EXCEPT ![root1] = @ + 1]
                       ELSE g.rank
            IN [g |-> [g EXCEPT !.parent = par, !.rank = rnk], ret |-> TRUE]
       ELSE [g |-> [g EXCEPT !.parent = f2.parent], ret |-> FALSE]

\* variant: a merge is reported whether or not the roots differ
UniteAlwaysTrue(g, cell1, cell2) ==
    LET f1 == _find_set(g.parent, cell1)
        f2 == _find_set(f1.parent, cell2)
        r1 == f1.ret
        r2 == f2.ret
    IN IF r1 # r2
       THEN LET root1 == IF g.rank[r1] < g.rank[r2] THEN r2 ELSE r1
                root2 == IF g.rank[r1] < g.rank[r2] THEN r1 ELSE r2
                par == [f2.parent EXCEPT ![root2] = root1]
                rnk == IF g.rank[root1] = g.rank[root2]
                       THEN [g.rank EXCEPT ![root1] = @ + 1]
                       ELSE g.rank
            IN [g |-> [g EXCEPT !.parent = par, !.rank = rnk], ret |-> TRUE]
       ELSE [g |-> [g EXCEPT !.parent = f2.parent], ret |-> TRUE]

\* _unite_sets: the new parent and rank maps and the boolean result
_unite_sets(g, cell1, cell2) ==
    LET f1 == _find_set(g.parent, cell1)
        f2 == _find_set(f1.parent, cell2)
        r1 == f1.ret
        r2 == f2.ret
    IN IF r1 # r2
       THEN LET root1 == IF g.rank[r1] < g.rank[r2] THEN r2 ELSE r1
                root2 == IF g.rank[r1] < g.rank[r2] THEN r1 ELSE r2
                par == [f2.parent EXCEPT ![root2] = root1]
                rnk == IF g.rank[root1] = g.rank[root2]
                       THEN [g.rank EXCEPT ![root1] = @ + 1]
                       ELSE g.rank
            IN [g |-> [g EXCEPT !.parent = par, !.rank = rnk], ret |-> TRUE]
       ELSE [g |-> [g EXCEPT !.parent = f2.parent], ret |-> FALSE]

\* variant: the grid starts with every lattice cell tile already open
NewLayoutCellsOpen(width, height) ==
    [r \in 0..(height - 1) |->
        [c \in 0..(width - 1) |->
            IF r % 2 = 1 /\ c % 2 = 1 /\ r < height - 1 /\ c < width - 1
            THEN PATH ELSE W]]

\* layout = [[W for _ in range(self.width)] for _ in range(self.height)]
NewLayout(width, height) ==
    [r \in 0..(height - 1) |-> [c \in 0..(width - 1) |-> W]]

\* the wall list: one entry per pair of lattice-adjacent cells
AllWalls(g) ==
    {<<<<r, c>>, <<r + 1, c>>>> :
        r \in 0..(g.cell_height - 2), c \in 0..(g.cell_width - 1)}
    \cup
    {<<<<r, c>>, <<r, c + 1>>>> :
        r \in 0..(g.cell_height - 1), c \in 0..(g.cell_width - 2)}

SetTile(lay, r, c, t) == [lay EXCEPT ![r][c] = t]

\* variant: the tile between the two cells is not opened
CarveCellsOnly(lay, cell1, cell2) ==
    LET l1 == SetTile(lay, 2 * cell1[1] + 1, 2 * cell1[2] + 1, PATH)
    IN SetTile(l1, 2 * cell2[1] + 1, 2 * cell2[2] + 1, PATH)

\* variant: the tile of the first cell is not opened
CarveSecondCellOnly(lay, cell1, cell2) ==
    LET l1 == SetTile(lay, 2 * cell2[1] + 1, 2 * cell2[2] + 1, PATH)
    IN SetTile(l1, cell1[1] + cell2[1] + 1, cell1[2] + cell2[2] + 1, PATH)

\* variant: the tile of the second cell is not opened
CarveFirstCellOnly(lay, cell1, cell2) ==
    LET l1 == SetTile(lay, 2 * cell1[1] + 1, 2 * cell1[2] + 1, PATH)
    IN SetTile(l1, cell1[1] + cell2[1] + 1, cell1[2] + cell2[2] + 1, PATH)

\* phase 1, the accepted branch: both cell tiles and the tile between them
CarveEdge(lay, cell1, cell2) ==
    LET l1 == SetTile(lay, 2 * cell1[1] + 1, 2 * cell1[2] + 1, PATH)
        l2 == SetTile(l1, 2 * cell2[1] + 1, 2 * cell2[2] + 1, PATH)
    IN SetTile(l2, cell1[1] + cell2[1] + 1, cell1[2] + cell2[2] + 1, PATH)

\* phase 2: only the tile between the two cells
CarveLoop(lay, cell1, cell2) ==
    SetTile(lay, cell1[1] + cell2[1] + 1, cell1[2] + cell2[2] + 1, PATH)

\* variant: the product is rounded up
NumLoopsRoundedUp(n, num) == (n * num + LoopDen - 1) \div LoopDen

\* int(len(remaining_walls) * loop_probability), loop_probability = num/LoopDen
NumLoops(n, num) == (n * num) \div LoopDen

\* list.pop(i), i counted from 0
PopAt(s, i) == [k \in 1..(Len(s) - 1) |-> IF k <= i THEN s[k] ELSE s[k + 1]]


(* ----------------------- _find_reachable_nodes ------------------------ *)
\* variant: a fifth, diagonal direction
DirectionsWithDiagonal == <<<<0, 1>>, <<0, -1>>, <<1, 0>>, <<-1, 0>>, <<1, 1>>>>
\* line 95
Directions == <<<<0, 1>>, <<0, -1>>, <<1, 0>>, <<-1, 0>>>>

\* the body of "for dx, dy in [...]" for the directions k..4 at tile <<x, y>>
RECURSIVE VisitNeighbours(_, _, _, _, _)
VisitNeighbours(lay, obstacle_set, pos, k, st) ==
    IF k > Len(Directions)
    THEN st
    ELSE LET width == PyLen(lay[0])
             height == PyLen(lay)
             nx == pos[1] + Directions[k][1]
             ny == pos[2] + Directions[k][2]
             add == /\ 0 <= nx /\ nx < width /\ 0 <= ny /\ ny < height
                    /\ <<nx, ny>> \notin st.visited
                    /\ lay[ny][nx] # W
                    /\ <<nx, ny>> \notin obstacle_set
             nst == IF add
                    THEN [st EXCEPT
                             !.queue = Append(st.queue, <<nx, ny>>),
                             !.visited = st.visited \cup {<<nx, ny>>}]
                    ELSE st
         IN VisitNeighbours(lay, obstacle_set, pos, k + 1, nst)

\* lines 88-89: the queue and the visited set before the loop; popped is a
\* history of the coordinates taken by popleft(), which the code does not keep
SearchStart(start_pos) ==
    [queue |-> <<start_pos>>, visited |-> {start_pos}, popped |-> <<>>]

\* the "while queue" loop, up to the state it ends in
RECURSIVE BreadthFirst(_, _, _)
BreadthFirst(lay, obstacle_set, st) ==
    IF st.queue = <<>>
    THEN st
    ELSE BreadthFirst(lay, obstacle_set,
             VisitNeighbours(lay, obstacle_set, Head(st.queue), 1,
                 [st EXCEPT !.queue = Tail(st.queue),
                            !.popped = Append(st.popped, Head(st.queue))]))

\* variant: the obstacle list is not handed to the search
FindReachableIgnoringObstacles(lay, start_pos, obs) ==
    BreadthFirst(lay, {}, SearchStart(start_pos)).visited

_find_reachable_nodes(lay, start_pos, obs) ==
    BreadthFirst(lay, Range(obs), SearchStart(start_pos)).visited

(* ---------------------- create_randomized_level ----------------------- *)
\* variant: both range checks lack "1 <=", so that ALL_LEVELS[level_number - 1]
\* counts a negative index from the end of the list
LookupWithoutLowerLimit(level_number) ==
    IF ~(level_number <= Len(ALL_LEVELS))
    THEN None
    ELSE IF level_number >= 1
         THEN ALL_LEVELS[level_number]
         ELSE ALL_LEVELS[Len(ALL_LEVELS) + level_number]

\* lines 109-114: the template of the level, or None
LookupTemplate(level_number) ==
    IF ~(1 <= level_number /\ level_number <= Len(ALL_LEVELS))
    THEN None
    ELSE get_level(level_number)

\* the Path tiles from linear index k on, rows top to bottom, columns left
\* to right, as (c_idx, r_idx)
RECURSIVE ScanFrom(_, _, _)
ScanFrom(lay, w, k) ==
    IF k >= PyLen(lay) * w
    THEN <<>>
    ELSE IF lay[k \div w][k % w] = PATH
         THEN <<<<k % w, k \div w>>>> \o ScanFrom(lay, w, k + 1)
         ELSE ScanFrom(lay, w, k + 1)

ScanPathCoords(lay) ==
    IF PyLen(lay) = 0 THEN <<>> ELSE ScanFrom(lay, PyLen(lay[0]), 0)

\* variant: reachability computed as if no obstacle had been placed
ValidLocsBeforeObstacles(lay, ppos, epos, obs) ==
    LET all_reachable_nodes == _find_reachable_nodes(lay, ppos, <<>>)
    IN {pos \in all_reachable_nodes :
           pos # ppos /\ pos # epos /\ pos \notin Range(obs)}

\* lines 168-173: the reachable tiles that may hold a collectible
ValidCollectibleLocs(lay, ppos, epos, obs) ==
    LET all_reachable_nodes == _find_reachable_nodes(lay, ppos, obs)
    IN {pos \in all_reachable_nodes :
           pos # ppos /\ pos # epos /\ pos \notin Range(obs)}

\* lines 177-178: the first min(num, len) entries of the shuffled list
TakeCollectibles(num, valid_collectible_locs) ==
    SubSeq(valid_collectible_locs, 1, Min(num, Len(valid_collectible_locs)))

(* ------------------------------- Init --------------------------------- *)
\* before the first use and after the return: no generator, no locals
NoGen(g, lay, ws, rem, nloops, done) ==
    /\ g = None
    /\ lay = <<>>
    /\ ws = {}
    /\ rem = <<>>
    /\ nloops = 0
    /\ done = 0

NoPlan(orig, coords, ppos, epos, ncoll, nobs, obs, locs, sl, tr) ==
    /\ orig = None
    /\ coords = <<>>
    /\ ppos = None
    /\ epos = None
    /\ ncoll = 0
    /\ nobs = 0
    /\ obs = <<>>
    /\ locs = <<>>
    /\ sl = 0
    /\ tr = 0

DropGen ==
    NoGen(generator', layout', walls', remaining_walls',
          num_loops_to_create', loops_done')

\* variant: the obstacle list outlives the call that filled it
DropPlanKeepingObstacles ==
    /\ original_level' = None
    /\ path_coords' = <<>>
    /\ player_pos' = None
    /\ exit_pos' = None
    /\ num_collectibles' = 0
    /\ num_obstacles' = 0
    /\ obstacles' = obstacles
    /\ possible_obstacle_locs' = <<>>
    /\ slot' = 0
    /\ tries' = 0

DropPlan ==
    NoPlan(original_level', path_coords', player_pos', exit_pos',
           num_collectibles', num_obstacles', obstacles',
           possible_obstacle_locs', slot', tries')
\* GameManager.__init__: the fields of the flow the model follows; maze is
\* None or stands for the Maze built from a level's data, running names the
\* method that is inside _load_level and level_number is its argument
GameManagerInit ==
    [state |-> "MENU", current_level |-> 1, maze |-> None, running |-> "",
     level_number |-> 0]

NoCall == [fn |-> "", level_number |-> 0, width |-> 0, height |-> 0,
           loop_num |-> 0]

Init ==
    /\ \E w \in 0..MaxWidth, h \in 0..MaxHeight :
          ALL_LEVELS = [n \in 1..NumLevels |->
                           [number |-> n, layout |-> TemplateLayout(w, h),
                            collectibles |-> <<>>, obstacles |-> <<>>,
                            time_limit |-> TimeLimits[n]]]
    /\ manager = GameManagerInit
    /\ pc = "idle"
    /\ call = NoCall
    /\ NoGen(generator, layout, walls, remaining_walls, num_loops_to_create,
             loops_done)
    /\ NoPlan(original_level, path_coords, player_pos, exit_pos,
              num_collectibles, num_obstacles, obstacles,
              possible_obstacle_locs, slot, tries)
    /\ result = None
    /\ exception = ""

(* ------------------- entry: create_randomized_level ------------------- *)
CreateCall(n) ==
    [fn |-> "create_randomized_level", level_number |-> n, width |-> 0,
     height |-> 0, loop_num |-> DefaultLoopNum]

\* lines 109-114: no template, return None
CreateNoLevel(n) ==
    /\ pc = "idle"
    /\ LookupTemplate(n) = None
    /\ call' = CreateCall(n)
    /\ pc' = "returned"
    /\ result' = None
    /\ UNCHANGED <<ALL_LEVELS, manager, genVars, planVars, exception>>

\* lines 116-117: len(original_level.layout[0]) on a layout without rows
CreateEmptyTemplate(n) ==
    /\ pc = "idle"
    /\ LookupTemplate(n) # None
    /\ PyLen(LookupTemplate(n).layout) = 0
    /\ call' = CreateCall(n)
    /\ pc' = "raised"
    /\ exception' = "IndexError"
    /\ UNCHANGED <<ALL_LEVELS, manager, genVars, planVars, result>>

\* lines 112-119: the template's dimensions go to a new MazeGenerator
CreateBegin(n) ==
    /\ pc = "idle"
    /\ LookupTemplate(n) # None
    /\ PyLen(LookupTemplate(n).layout) > 0
    /\ LET tmpl == LookupTemplate(n)
           height == PyLen(tmpl.layout)
           width == PyLen(tmpl.layout[0])
       IN /\ original_level' = tmpl
          /\ generator' = MazeGeneratorInit(width, height)
    /\ call' = CreateCall(n)
    /\ pc' = "generate"
    /\ UNCHANGED <<ALL_LEVELS, manager, layout, walls, remaining_walls,
                   num_loops_to_create, loops_done, path_coords, player_pos,
                   exit_pos, num_collectibles, num_obstacles, obstacles,
                   possible_obstacle_locs, slot, tries, result, exception>>

(* ---------------- entry: MazeGenerator(w, h).generate(p) -------------- *)
GenerateCall(w, h, num) ==
    /\ pc = "idle"
    /\ call' = [fn |-> "generate", level_number |-> 0, width |-> w,
                height |-> h, loop_num |-> num]
    /\ generator' = MazeGeneratorInit(w, h)
    /\ pc' = "generate"
    /\ UNCHANGED <<ALL_LEVELS, manager, layout, walls, remaining_walls,
                   num_loops_to_create, loops_done, planVars, result,
                   exception>>

(* ------------------------------ generate ------------------------------ *)
\* lines 48-59: DSU, all-wall grid, the wall list (shuffled: CarveStep
\* visits the walls in an arbitrary order)
GenerateBegin ==
    /\ pc = "generate"
    /\ generator' = _initialize_dsu(generator)
    /\ layout' = NewLayout(generator.width, generator.height)
    /\ walls' = AllWalls(generator)
    /\ remaining_walls' = <<>>
    /\ pc' = "carve"
    /\ UNCHANGED <<ALL_LEVELS, manager, call, num_loops_to_create, loops_done,
                   planVars, result, exception>>

\* lines 63-72: one iteration of phase 1 on the next wall of the shuffle
CarveStep ==
    /\ pc = "carve"
    /\ \E wall \in walls :
          LET u == _unite_sets(generator, wall[1], wall[2])
          IN /\ generator' = u.g
             /\ IF u.ret
                THEN /\ layout' = CarveEdge(layout, wall[1], wall[2])
                     /\ UNCHANGED remaining_walls
                ELSE /\ remaining_walls' = Append(remaining_walls, wall)
                     /\ UNCHANGED layout
             /\ walls' = walls \ {wall}
    /\ UNCHANGED <<ALL_LEVELS, manager,
                   pc, call, num_loops_to_create, loops_done,
                   planVars, result, exception>>

\* line 75
BeginLoops ==
    /\ pc = "carve"
    /\ walls = {}
    /\ num_loops_to_create' = NumLoops(Len(remaining_walls), call.loop_num)
    /\ loops_done' = 0
    /\ pc' = "loops"
    /\ UNCHANGED <<ALL_LEVELS, manager, call, generator, layout, walls,
                   remaining_walls, planVars, result, exception>>

\* lines 76-82: one iteration of phase 2
LoopStep ==
    /\ pc = "loops"
    /\ loops_done < num_loops_to_create
    /\ remaining_walls # <<>>
    /\ \E i \in 0..(Len(remaining_walls) - 1) :
          LET wall == remaining_walls[i + 1]
          IN /\ remaining_walls' = PopAt(remaining_walls, i)
             /\ layout' = CarveLoop(layout, wall[1], wall[2])
    /\ loops_done' = loops_done + 1
    /\ UNCHANGED <<ALL_LEVELS, manager, pc, call, generator, walls,
                   num_loops_to_create, planVars, result, exception>>

LoopsOver == loops_done >= num_loops_to_create \/ remaining_walls = <<>>

\* line 84, called directly: the grid is the result
GenerateReturn ==
    /\ pc = "loops"
    /\ LoopsOver
    /\ call.fn = "generate"
    /\ result' = [grid |-> layout]
    /\ pc' = "returned"
    /\ DropGen
    /\ UNCHANGED <<ALL_LEVELS, manager, call, planVars, exception>>

\* line 84 then line 120: back in create_randomized_level; the generator
\* and generate's locals are not read again
GenerateReturnToLevel ==
    /\ pc = "loops"
    /\ LoopsOver
    /\ call.fn = "create_randomized_level"
    /\ pc' = "scan"
    /\ generator' = None
    /\ walls' = {}
    /\ remaining_walls' = <<>>
    /\ num_loops_to_create' = 0
    /\ loops_done' = 0
    /\ UNCHANGED <<ALL_LEVELS, manager,
                   call, layout, planVars, result, exception>>

(* ----------------- create_randomized_level, continued ----------------- *)
\* variant: path_coords.pop(0) is missing, the start stays in the pool
PlaceKeepingStartInPool(lay, coords) ==
    LET ppos == coords[1]
        lay1 == SetTile(lay, ppos[2], ppos[1], P)
        epos == coords[Len(coords)]
        lay2 == SetTile(lay1, epos[2], epos[1], E)
    IN [player_pos |-> ppos, exit_pos |-> epos, layout |-> lay2,
        path_coords |-> SubSeq(coords, 1, Len(coords) - 1)]

\* variant: the exit is taken from index 0 before the start is removed
PlaceExitOnStart(lay, coords) ==
    LET ppos == coords[1]
        lay1 == SetTile(lay, ppos[2], ppos[1], P)
        epos == coords[1]
        lay2 == SetTile(lay1, epos[2], epos[1], E)
    IN [player_pos |-> ppos, exit_pos |-> epos, layout |-> lay2,
        path_coords |-> Tail(coords)]

\* variant: the exit is put on the last but one tile of the scan
PlaceExitBeforeLast(lay, coords) ==
    LET ppos == coords[1]
        lay1 == SetTile(lay, ppos[2], ppos[1], P)
        rest == Tail(coords)
        at == IF Len(rest) >= 2 THEN Len(rest) - 1 ELSE 1
        epos == rest[at]
        lay2 == SetTile(lay1, epos[2], epos[1], E)
    IN [player_pos |-> ppos, exit_pos |-> epos, layout |-> lay2,
        path_coords |-> SubSeq(rest, 1, at - 1) \o
                            SubSeq(rest, at + 1, Len(rest))]

\* variant: the exit is taken from the front of what is left of the scan
PlaceExitOnSecondTile(lay, coords) ==
    LET ppos == coords[1]
        lay1 == SetTile(lay, ppos[2], ppos[1], P)
        rest == Tail(coords)
        epos == rest[1]
        lay2 == SetTile(lay1, epos[2], epos[1], E)
    IN [player_pos |-> ppos, exit_pos |-> epos, layout |-> lay2,
        path_coords |-> Tail(rest)]

\* lines 131-138: start on the first scanned Path tile, exit on the last
PlacePlayerAndExit(lay, coords) ==
    LET ppos == coords[1]
        lay1 == SetTile(lay, ppos[2], ppos[1], P)
        rest == Tail(coords)
        epos == rest[Len(rest)]
        lay2 == SetTile(lay1, epos[2], epos[1], E)
    IN [player_pos |-> ppos, exit_pos |-> epos, layout |-> lay2,
        path_coords |-> SubSeq(rest, 1, Len(rest) - 1)]

\* lines 122-129: the scan finds no Path tile
ScanNoPath ==
    /\ pc = "scan"
    /\ ScanPathCoords(layout) = <<>>
    /\ result' = None
    /\ pc' = "returned"
    /\ DropGen
    /\ DropPlan
    /\ UNCHANGED <<ALL_LEVELS, manager, call, exception>>

\* lines 122-138: path_coords[-1] raises when the scan found one tile only
PlaceStartAndExit ==
    /\ pc = "scan"
    /\ ScanPathCoords(layout) # <<>>
    /\ LET coords == ScanPathCoords(layout)
       IN IF Len(coords) = 1
          THEN /\ pc' = "raised"
               /\ exception' = "IndexError"
               /\ UNCHANGED <<layout, path_coords, player_pos, exit_pos>>
          ELSE LET placed == PlacePlayerAndExit(layout, coords)
               IN /\ layout' = placed.layout
                  /\ path_coords' = placed.path_coords
                  /\ player_pos' = placed.player_pos
                  /\ exit_pos' = placed.exit_pos
                  /\ pc' = "shuffle"
                  /\ UNCHANGED exception
    /\ UNCHANGED <<ALL_LEVELS, manager,
                   call, generator, walls, remaining_walls,
                   num_loops_to_create, loops_done, original_level,
                   num_collectibles, num_obstacles, obstacles,
                   possible_obstacle_locs, slot, tries, result>>

\* variant: the level number is divided by 2
NumObstaclesHalved(level_number) == level_number \div 2

\* variant: the quotient is rounded up
NumObstaclesRoundedUp(level_number) == (level_number + 2) \div 3

\* line 144
NumObstacles(level_number) == level_number \div 3

\* variant: the "1 +" is missing
NumCollectiblesWithoutOne(level_number) == level_number \div 2

\* line 143
NumCollectibles(level_number) == 1 + (level_number \div 2)

\* variant: the inner loop is given one try fewer than the pool holds
SlotTriesOneLess(locs) == Len(locs) - 1
\* variant: the inner loop is given one try more than the pool holds
SlotTriesOneMore(locs) == Len(locs) + 1
\* line 153: range(len(possible_obstacle_locs)), evaluated once per slot
SlotTries(locs) == Len(locs)
\* variant: a rejected candidate is not put back
CandidateDropped(rest, pos) == rest

\* line 163: a rejected candidate goes to the back of the pool
ReturnCandidate(rest, pos) == Append(rest, pos)

\* lines 140-148
ShufflePool ==
    /\ pc = "shuffle"
    /\ \E q \in Shuffles(path_coords) :
          /\ path_coords' = q
          /\ possible_obstacle_locs' = q
    /\ num_collectibles' = NumCollectibles(call.level_number)
    /\ num_obstacles' = NumObstacles(call.level_number)
    /\ obstacles' = <<>>
    /\ slot' = 0
    /\ pc' = "obstacles"
    /\ UNCHANGED <<ALL_LEVELS, manager,
                   call, genVars, original_level, player_pos,
                   exit_pos, tries, result, exception>>

\* lines 150-153: the outer loop enters a slot
SlotBegin ==
    /\ pc = "obstacles"
    /\ slot < num_obstacles
    /\ possible_obstacle_locs # <<>>
    /\ tries' = SlotTries(possible_obstacle_locs)
    /\ pc' = "try"
    /\ UNCHANGED <<ALL_LEVELS, manager,
                   call, genVars, original_level, path_coords,
                   player_pos, exit_pos, num_collectibles, num_obstacles,
                   obstacles, possible_obstacle_locs, slot, result,
                   exception>>

\* lines 154-163: one candidate of the inner loop
TryCandidate ==
    /\ pc = "try"
    /\ tries > 0
    /\ LET pos == Head(possible_obstacle_locs)
           temp_obstacles == Append(obstacles, pos)
           reachable_after_block ==
               _find_reachable_nodes(layout, player_pos, temp_obstacles)
       IN IF exit_pos \in reachable_after_block
          THEN /\ obstacles' = Append(obstacles, pos)
               /\ possible_obstacle_locs' = Tail(possible_obstacle_locs)
               /\ tries' = 0
               /\ slot' = slot + 1
               /\ pc' = "obstacles"
          ELSE /\ possible_obstacle_locs' =
                      ReturnCandidate(Tail(possible_obstacle_locs), pos)
               /\ tries' = tries - 1
               /\ UNCHANGED <<obstacles, slot, pc>>
    /\ UNCHANGED <<ALL_LEVELS, manager,
                   call, genVars, original_level, path_coords,
                   player_pos, exit_pos, num_collectibles, num_obstacles,
                   result, exception>>

\* the inner loop ran out of candidates: on to the next slot
SlotExhausted ==
    /\ pc = "try"
    /\ tries = 0
    /\ slot' = slot + 1
    /\ pc' = "obstacles"
    /\ UNCHANGED <<ALL_LEVELS, manager,
                   call, genVars, original_level, path_coords,
                   player_pos, exit_pos, num_collectibles, num_obstacles,
                   obstacles, possible_obstacle_locs, tries, result,
                   exception>>

\* the outer loop ends (range exhausted, or the break of line 151)
ObstaclesDone ==
    /\ pc = "obstacles"
    /\ slot >= num_obstacles \/ possible_obstacle_locs = <<>>
    /\ pc' = "collect"
    /\ UNCHANGED <<ALL_LEVELS, manager,
                   call, genVars, planVars, result, exception>>

\* lines 165-189: collectibles, then the LevelData is returned
PlaceCollectibles ==
    /\ pc = "collect"
    /\ LET valid == ValidCollectibleLocs(layout, player_pos, exit_pos,
                                         obstacles)
       IN \E valid_collectible_locs \in Orders(valid) :
             result' = LevelData(call.level_number, layout,
                           TakeCollectibles(num_collectibles,
                                            valid_collectible_locs),
                           obstacles, original_level.time_limit)
    /\ pc' = "returned"
    /\ DropGen
    /\ DropPlan
    /\ UNCHANGED <<ALL_LEVELS, manager, call, exception>>

(* ------------------------------- Next --------------------------------- *)
Next ==
    \/ \E n \in LevelNumbers : CreateNoLevel(n)
    \/ \E n \in LevelNumbers : CreateEmptyTemplate(n)
    \/ \E n \in LevelNumbers : CreateBegin(n)
    \/ \E w \in 0..MaxGenWidth, h \in 0..MaxGenHeight, num \in LoopNums :
          GenerateCall(w, h, num)
    \/ GenerateBegin
    \/ CarveStep
    \/ BeginLoops
    \/ LoopStep
    \/ GenerateReturn
    \/ GenerateReturnToLevel
    \/ ScanNoPath
    \/ PlaceStartAndExit
    \/ ShufflePool
    \/ SlotBegin
    \/ TryCandidate
    \/ SlotExhausted
    \/ ObstaclesDone
    \/ PlaceCollectibles

Spec == Init /\ [][Next]_vars

(* -------------- _find_reachable_nodes called on its own --------------- *)
\* rectangular grids of Wall and Path tiles
Grids(w, h) == [0..(h - 1) -> [0..(w - 1) -> {W, PATH}]]

\* obstacle lists of at most MaxBlocked coordinates of the grid
BlockedLists(w, h) ==
    UNION {[1..n -> (0..(w - 1)) \X (0..(h - 1))] : n \in 0..MaxBlocked}

\* a caller is about to hand a grid, a start inside it and an obstacle list
SearchInit ==
    /\ \E w \in 1..MaxSearchWidth, h \in 1..MaxSearchHeight :
          \E lay \in Grids(w, h), x \in 0..(w - 1), y \in 0..(h - 1),
             obs \in BlockedLists(w, h) :
              call = [fn |-> "_find_reachable_nodes", layout |-> lay,
                      start_pos |-> <<x, y>>, obstacles |-> obs]
    /\ ALL_LEVELS = <<>>
    /\ manager = GameManagerInit
    /\ pc = "idle"
    /\ NoGen(generator, layout, walls, remaining_walls, num_loops_to_create,
             loops_done)
    /\ NoPlan(original_level, path_coords, player_pos, exit_pos,
              num_collectibles, num_obstacles, obstacles,
              possible_obstacle_locs, slot, tries)
    /\ result = None
    /\ exception = ""

\* lines 86-106: the call, from entry to "return visited"
FindReachableCall ==
    /\ pc = "idle"
    /\ call.fn = "_find_reachable_nodes"
    /\ result' = [visited |-> _find_reachable_nodes(call.layout,
                                  call.start_pos, call.obstacles)]
    /\ pc' = "returned"
    /\ UNCHANGED <<ALL_LEVELS, manager, call, genVars, planVars, exception>>

SearchNext == FindReachableCall

SearchSpec == SearchInit /\ [][SearchNext]_vars

(* ------------------ game_manager.py: the level flow ------------------- *)
\* Maze(level_data.layout, ...): the model keeps which level's data it holds
Maze(level_data) == [number |-> level_data.number]

\* _load_level, lines 299-314, given what create_randomized_level returned
_load_level(self, level_data, level_number) ==
    IF level_data = None
    THEN [self EXCEPT !.state = "VICTORY"]
    ELSE [self EXCEPT !.maze = Maze(level_data),
                      !.current_level = level_number]

\* lines 294 and 398: what both callers do once _load_level has returned
AfterLoadLevel(self) == [self EXCEPT !.state = "PLAYING"]

\* lines 223-224, 233-237: "New Game" in the menu
ShowProfileSelect ==
    /\ manager.state = "MENU"
    /\ manager' = [manager EXCEPT !.state = "PROFILE_SELECT"]
    /\ UNCHANGED <<ALL_LEVELS, pc, call, genVars, planVars, result,
                   exception>>

\* lines 256, 288-293: _start_new_game up to its call of _load_level(1)
StartNewGame ==
    /\ manager.state = "PROFILE_SELECT"
    /\ manager.running = ""
    /\ manager' = [manager EXCEPT !.current_level = 1,
                                  !.running = "_start_new_game",
                                  !.level_number = 1]
    /\ UNCHANGED <<ALL_LEVELS, pc, call, genVars, planVars, result,
                   exception>>

\* line 298: _load_level calls create_randomized_level(level_number); the
\* numbers the flow asks for are never outside the catalog
LoadLevelCall ==
    /\ manager.running # ""
    /\ \/ CreateEmptyTemplate(manager.level_number)
       \/ CreateBegin(manager.level_number)

\* lines 299-314, then line 294 or 398: the call has returned, _load_level
\* finishes and its caller sets the state
LoadLevelReturn ==
    /\ manager.running # ""
    /\ pc = "returned"
    /\ manager' =
           [AfterLoadLevel(_load_level(manager, result, manager.level_number))
               EXCEPT !.running = "", !.level_number = 0]
    /\ pc' = "idle"
    /\ call' = NoCall
    /\ result' = None
    /\ UNCHANGED <<ALL_LEVELS, genVars, planVars, exception>>

\* lines 319-322: ESC while playing
EscapeToMenu ==
    /\ manager.state = "PLAYING"
    /\ manager' = [manager EXCEPT !.state = "MENU"]
    /\ UNCHANGED <<ALL_LEVELS, pc, call, genVars, planVars, result,
                   exception>>

\* lines 351-362, 372-383: the player has reached the exit of the maze
CompleteLevel ==
    /\ manager.state = "PLAYING"
    /\ manager.maze # None
    /\ manager' = [manager EXCEPT !.state = "LEVEL_COMPLETE"]
    /\ UNCHANGED <<ALL_LEVELS, pc, call, genVars, planVars, result,
                   exception>>

\* lines 390-394, 419-426: ENTER after the last level ends the game
LevelCompleteLast ==
    /\ manager.state = "LEVEL_COMPLETE"
    /\ manager.running = ""
    /\ manager.current_level >= NumLevels
    /\ manager' = [manager EXCEPT !.state = "VICTORY"]
    /\ UNCHANGED <<ALL_LEVELS, pc, call, genVars, planVars, result,
                   exception>>

\* lines 390-397: ENTER after any other level, up to the call of
\* _load_level(current_level + 1)
LevelCompleteNext ==
    /\ manager.state = "LEVEL_COMPLETE"
    /\ manager.running = ""
    /\ manager.current_level < NumLevels
    /\ manager' = [manager EXCEPT !.running = "_update_level_complete",
                                  !.level_number = manager.current_level + 1]
    /\ UNCHANGED <<ALL_LEVELS, pc, call, genVars, planVars, result,
                   exception>>

\* lines 438-446: ENTER on the victory screen
VictoryEnter ==
    /\ manager.state = "VICTORY"
    /\ manager' = [manager EXCEPT !.state = "MENU"]
    /\ UNCHANGED <<ALL_LEVELS, pc, call, genVars, planVars, result,
                   exception>>

\* The flow of the game with every call of create_randomized_level it makes.
\* The loop phase is left out: with the default loop_probability and
\* templates of at most MaxWidth x MaxHeight tiles num_loops_to_create is 0.
GameNext ==
    \/ ShowProfileSelect
    \/ StartNewGame
    \/ LoadLevelCall
    \/ GenerateBegin
    \/ CarveStep
    \/ BeginLoops
    \/ GenerateReturnToLevel
    \/ ScanNoPath
    \/ PlaceStartAndExit
    \/ ShufflePool
    \/ SlotBegin
    \/ TryCandidate
    \/ SlotExhausted
    \/ ObstaclesDone
    \/ PlaceCollectibles
    \/ LoadLevelReturn
    \/ EscapeToMenu
    \/ CompleteLevel
    \/ LevelCompleteLast
    \/ LevelCompleteNext
    \/ VictoryEnter

GameSpec == Init /\ [][GameNext]_vars

(* ======================= properties of the levels ===================== *)
\* Reachability stated on the grid itself, independently of the search in
\* _find_reachable_nodes: the least set holding the start and closed under
\* steps to a side-adjacent tile that is not Wall and not blocked.
GridCoords(lay) == UNION {{<<x, y>> : x \in DOMAIN lay[y]} : y \in DOMAIN lay}

TilesOf(lay, kind) == {t \in GridCoords(lay) : lay[t[2]][t[1]] = kind}

NonWallTiles(lay) == {t \in GridCoords(lay) : lay[t[2]][t[1]] # W}

SideAdjacent(a, b) ==
    \/ a[1] = b[1] /\ (a[2] = b[2] + 1 \/ b[2] = a[2] + 1)
    \/ a[2] = b[2] /\ (a[1] = b[1] + 1 \/ b[1] = a[1] + 1)

RECURSIVE Grow(_, _)
Grow(open, S) ==
    LET N == S \cup {t \in open : \E u \in S : SideAdjacent(u, t)}
    IN IF N = S THEN S ELSE Grow(open, N)

ReachableFrom(lay, start, blocked) ==
    Grow(NonWallTiles(lay) \ blocked, {start})

NoDuplicates(q) == \A i, j \in DOMAIN q : i # j => q[i] # q[j]

\* create_randomized_level has returned a LevelData
LevelReturned ==
    /\ pc = "returned"
    /\ call.fn = "create_randomized_level"
    /\ result # None

\* generate() has returned its grid to a direct caller
GridReturned == pc = "returned" /\ call.fn = "generate"

\* the template create_randomized_level was called for, when in range
InRangeCall ==
    /\ call.fn = "create_randomized_level"
    /\ call.level_number \in 1..NumLevels

TemplateRows == PyLen(ALL_LEVELS[call.level_number].layout)
TemplateCols == PyLen(ALL_LEVELS[call.level_number].layout[0])

\* C1: in every returned level the Exit tile is reachable from the
\* PlayerStart tile by side steps over non-Wall tiles when every obstacle
\* coordinate is impassable.
C1_ExitReachable ==
    LevelReturned =>
        /\ TilesOf(result.layout, P) # {}
        /\ TilesOf(result.layout, E) # {}
        /\ \A st \in TilesOf(result.layout, P), ex \in TilesOf(result.layout, E) :
              ex \in ReachableFrom(result.layout, st, Range(result.obstacles))

\* C1 witness: a level with an obstacle placed although another candidate,
\* had it been chosen instead, would have cut the exit off.
C1_Witness ==
    /\ LevelReturned
    /\ result.obstacles # <<>>
    /\ \E t \in TilesOf(result.layout, PATH), st \in TilesOf(result.layout, P),
          ex \in TilesOf(result.layout, E) :
          ex \notin ReachableFrom(result.layout, st, {t})

\* C2: every collectible of a returned level is reachable from PlayerStart
\* with the final obstacles impassable.
C2_CollectiblesReachable ==
    LevelReturned =>
        \A st \in TilesOf(result.layout, P) :
            \A c \in Range(result.collectibles) :
                c \in ReachableFrom(result.layout, st, Range(result.obstacles))

\* C2 witness: a level with a collectible, in which an obstacle has cut some
\* Path tile off from the start.
C2_Witness ==
    /\ LevelReturned
    /\ result.collectibles # <<>>
    /\ \E st \in TilesOf(result.layout, P) :
          \E t \in TilesOf(result.layout, PATH) \ Range(result.obstacles) :
              t \notin ReachableFrom(result.layout, st, Range(result.obstacles))

\* C3: start, exit, the obstacles and the collectibles of a returned level
\* are pairwise distinct coordinates.
C3_Disjoint ==
    LevelReturned =>
        LET special == TilesOf(result.layout, P) \cup TilesOf(result.layout, E)
        IN /\ NoDuplicates(result.obstacles)
           /\ NoDuplicates(result.collectibles)
           /\ Range(result.obstacles) \cap Range(result.collectibles) = {}
           /\ Range(result.obstacles) \cap special = {}
           /\ Range(result.collectibles) \cap special = {}
           /\ TilesOf(result.layout, P) \cap TilesOf(result.layout, E) = {}

\* C3 witness: a level with at least one obstacle and two collectibles.
C3_Witness ==
    /\ LevelReturned
    /\ Len(result.obstacles) >= 1
    /\ Len(result.collectibles) >= 2

\* C4: the grid of a returned level has exactly one PlayerStart tile and
\* exactly one Exit tile, at different coordinates.
C4_OneStartOneExit ==
    LevelReturned =>
        /\ Cardinality(TilesOf(result.layout, P)) = 1
        /\ Cardinality(TilesOf(result.layout, E)) = 1
        /\ TilesOf(result.layout, P) # TilesOf(result.layout, E)

\* C4 witness: a returned level whose grid had more than three open tiles.
C4_Witness ==
    /\ LevelReturned
    /\ Cardinality(NonWallTiles(result.layout)) > 3

(* ======================= properties of generate ======================= *)
\* the grid generate() has handed back, once it has
GeneratedGrid ==
    IF GridReturned THEN result.grid
    ELSE IF LevelReturned THEN result.layout
    ELSE layout

GenerateOver ==
    \/ GridReturned
    \/ LevelReturned
    \/ pc \in {"scan", "shuffle", "obstacles", "try", "collect"}

\* the PlayerStart tile: the P tile once placed, before that the first Path
\* tile of the row-major scan, which is where P is going to be placed
StartOfGrid(lay) ==
    IF TilesOf(lay, P) # {}
    THEN CHOOSE t \in TilesOf(lay, P) : TRUE
    ELSE ScanPathCoords(lay)[1]

\* C5: in every grid returned by generate, the reachability analysis run
\* from the PlayerStart tile with nothing blocked covers every non-Wall tile.
C5_NoUnreachablePocket ==
    (GenerateOver /\ NonWallTiles(GeneratedGrid) # {}) =>
        NonWallTiles(GeneratedGrid) \subseteq
            _find_reachable_nodes(GeneratedGrid, StartOfGrid(GeneratedGrid),
                                  <<>>)

\* C5 witness: a returned grid with more open tiles than a spanning tree of
\* its lattice opens, that is, a grid in which a loop was injected.
C5_Witness ==
    /\ GridReturned
    /\ (call.width \div 2) * (call.height \div 2) >= 4
    /\ Cardinality(NonWallTiles(result.grid)) >
           2 * (call.width \div 2) * (call.height \div 2) - 1

(* ================== properties of the failure paths =================== *)
\* C6: for a level number below 1 or above the catalog size the call has
\* returned None, raised nothing, created no generator and built no grid.
C6_OutOfRangeNoLevel ==
    (/\ call.fn = "create_randomized_level"
     /\ (call.level_number < 1 \/ call.level_number > NumLevels)) =>
        /\ pc = "returned"
        /\ result = None
        /\ exception = ""
        /\ generator = None
        /\ layout = <<>>

\* C6 witness: the call for level 0 has returned None.
C6_Witness ==
    /\ call.fn = "create_randomized_level"
    /\ call.level_number = 0
    /\ pc = "returned"
    /\ result = None

\* C7: when the template of an in-range level has a layout without rows, the
\* call returns None and never raises.
C7_EmptyTemplateNoLevel ==
    (InRangeCall /\ TemplateRows = 0) =>
        /\ pc # "raised"
        /\ pc = "returned" => result = None

\* cell_width * cell_height of the lattice the template's dimensions give
LatticeCells == (TemplateCols \div 2) * (TemplateRows \div 2)

\* C8: a call for a template with rows never raises; when the lattice has
\* fewer than 2 cells it never reaches placement and returns None; and a
\* returned level never lacks its start or its exit.
C8_DegenerateNoLevel ==
    /\ (InRangeCall /\ TemplateRows > 0) =>
          /\ pc # "raised"
          /\ LatticeCells < 2 =>
                /\ pc \notin {"shuffle", "obstacles", "try", "collect"}
                /\ pc = "returned" => result = None
    /\ pc \in {"shuffle", "obstacles", "try", "collect"} =>
          TilesOf(layout, P) # {} /\ TilesOf(layout, E) # {}
    /\ LevelReturned =>
          TilesOf(result.layout, P) # {} /\ TilesOf(result.layout, E) # {}

\* C8 witness: a template giving a lattice of exactly one cell, for which the
\* call has returned None.
C8_Witness ==
    /\ InRangeCall
    /\ TemplateRows > 0
    /\ LatticeCells = 1
    /\ pc = "returned"
    /\ result = None

(* ==================== properties of the dimensions ==================== *)
NextOdd(d) == IF d % 2 = 0 THEN d + 1 ELSE d

RequestedWidth == IF call.fn = "generate" THEN call.width ELSE TemplateCols
RequestedHeight == IF call.fn = "generate" THEN call.height ELSE TemplateRows

HasDims(lay, w, h) ==
    /\ PyLen(lay) = h
    /\ \A r \in DOMAIN lay : PyLen(lay[r]) = w

\* C10: the generator uses width + 1 for an even width and the width itself
\* for an odd one, the same for the height; the grid it builds and returns
\* has exactly these dimensions, which are odd; 10 by 10 gives 11 by 11.
C10_OddDimensions ==
    /\ generator # None =>
          /\ generator.width = NextOdd(RequestedWidth)
          /\ generator.height = NextOdd(RequestedHeight)
    /\ (pc \in {"carve", "loops"} \/ GenerateOver) =>
          /\ HasDims(GeneratedGrid, NextOdd(RequestedWidth),
                     NextOdd(RequestedHeight))
          /\ NextOdd(RequestedWidth) % 2 = 1
          /\ NextOdd(RequestedHeight) % 2 = 1
    /\ LET g == MazeGeneratorInit(10, 10)
       IN g.width = 11 /\ g.height = 11
             /\ HasDims(NewLayout(g.width, g.height), 11, 11)

\* C10 witness: generate has returned for an even width and an odd height.
C10_Witness ==
    /\ GridReturned
    /\ call.width % 2 = 0
    /\ call.height % 2 = 1
    /\ HasDims(result.grid, call.width + 1, call.height)

(* ================= properties of the obstacle placement =============== *)
\* the exit can be reached from the start with the list obs impassable
ExitReachableWith(obs) ==
    exit_pos \in ReachableFrom(layout, player_pos, Range(obs))

\* a step of the inner loop on the candidate at the front of the pool
TryStep == pc = "try" /\ tries > 0

\* what such a step has to do with the front candidate
TryStepOutcome ==
    LET pos == Head(possible_obstacle_locs)
        rest == Tail(possible_obstacle_locs)
    IN IF ExitReachableWith(Append(obstacles, pos))
       THEN /\ obstacles' = Append(obstacles, pos)
            /\ possible_obstacle_locs' = rest
            /\ pc' = "obstacles"
            /\ slot' = slot + 1
       ELSE /\ obstacles' = obstacles
            /\ possible_obstacle_locs' = Append(rest, pos)
            /\ pc' = "try"
            /\ slot' = slot

\* C11: in a slot the candidate at the front of the pool is the one tried; if
\* adding it to the committed obstacles cuts the exit off it goes to the back
\* of the pool uncommitted and the slot goes on, otherwise it is committed and
\* the slot ends; the exit is reachable under the committed obstacles at every
\* point of the placement.
C11_FrontCandidateRule ==
    /\ [](pc \in {"obstacles", "try", "collect"} => ExitReachableWith(obstacles))
    /\ [][TryStep => TryStepOutcome]_vars

\* C11 witness: in a slot after a first obstacle was committed, a candidate
\* has been rejected and put back, and candidates are left to try.
C11_Witness ==
    /\ pc = "try"
    /\ obstacles # <<>>
    /\ tries > 0
    /\ tries < Len(possible_obstacle_locs)
    /\ ~ExitReachableWith(Append(obstacles,
            possible_obstacle_locs[Len(possible_obstacle_locs)]))

InPlacement == pc \in {"obstacles", "try", "collect"}

\* C12: the obstacle list never holds more than floor(level_number / 3)
\* entries; when the placement is over with fewer, every candidate left in
\* the pool would cut the exit off (or the pool is empty); and the placement,
\* however few obstacles it commits, ends in a returned level.
C12_ObstacleCount ==
    /\ [](InPlacement => Len(obstacles) <= call.level_number \div 3)
    /\ [](LevelReturned =>
              Len(result.obstacles) <= call.level_number \div 3)
    /\ []((pc = "collect" /\ Len(obstacles) < call.level_number \div 3) =>
              \A pos \in Range(possible_obstacle_locs) :
                  ~ExitReachableWith(Append(obstacles, pos)))
    /\ [][InPlacement =>
              \/ InPlacement'
              \/ pc' = "returned" /\ result' # None
                    /\ result'.obstacles = obstacles]_vars

\* C12 witness: the placement is over one obstacle short of the target, with
\* obstacles committed and candidates left in the pool.
C12_Witness ==
    /\ pc = "collect"
    /\ obstacles # <<>>
    /\ Len(obstacles) < call.level_number \div 3
    /\ possible_obstacle_locs # <<>>


(* ================= properties of the collectible placement ============= *)
\* Path tiles of a returned level (start and exit carry their own marks) that
\* are no obstacle and can be reached from the start around the obstacles
QualifyingTiles(level) ==
    {t \in TilesOf(level.layout, PATH) \ Range(level.obstacles) :
        \E st \in TilesOf(level.layout, P) :
            t \in ReachableFrom(level.layout, st, Range(level.obstacles))}

\* C13: a returned level holds min(1 + floor(level_number / 2), Q)
\* collectibles, Q being the number of Path tiles other than start and exit
\* that are no obstacle and reachable from the start under the final
\* obstacle list; with Q below the target, all Q tiles hold a collectible.
C13_CollectibleCount ==
    LevelReturned =>
        LET Q == Cardinality(QualifyingTiles(result))
            target == 1 + (call.level_number \div 2)
        IN /\ Len(result.collectibles) = Min(target, Q)
           /\ Q < target =>
                 Range(result.collectibles) = QualifyingTiles(result)

\* C13 witness: a level with obstacles whose qualifying tiles are fewer than
\* the target, every one of them holding a collectible.
C13_Witness ==
    /\ LevelReturned
    /\ result.obstacles # <<>>
    /\ QualifyingTiles(result) # {}
    /\ Cardinality(QualifyingTiles(result)) < 1 + (call.level_number \div 2)
    /\ Len(result.collectibles) = Cardinality(QualifyingTiles(result))


\* C14: a level returned for level_number 1 has no obstacle and exactly one
\* collectible; the grid always offers a tile for it, since a Path tile
\* other than start and exit is reachable from the start.
C14_LevelOne ==
    (LevelReturned /\ call.level_number = 1) =>
        /\ result.obstacles = <<>>
        /\ Len(result.collectibles) = 1
        /\ QualifyingTiles(result) # {}

\* C14 witness: a level returned for level_number 1 whose grid offered more
\* than one tile for the single collectible.
C14_Witness ==
    /\ LevelReturned
    /\ call.level_number = 1
    /\ Len(result.collectibles) = 1
    /\ Cardinality(QualifyingTiles(result)) > 1


(* ================= properties of the returned descriptor =============== *)
\* C15: a returned level carries the level number it was requested for and
\* the time_limit of that level's template.
C15_NumberAndTimeLimit ==
    LevelReturned =>
        /\ result.number = call.level_number
        /\ result.time_limit = ALL_LEVELS[call.level_number].time_limit

\* C15 witness: a level returned for the last template, with obstacles and
\* collectibles generated, carrying that template's time limit.
C15_Witness ==
    /\ LevelReturned
    /\ call.level_number = NumLevels
    /\ result.obstacles # <<>>
    /\ result.collectibles # <<>>
    /\ result.time_limit = TimeLimits[NumLevels]


(* ======================= termination of a call ========================= *)
Done == pc \in {"returned", "raised"}

\* the stages of a call, counted down towards the return
Stage ==
    CASE pc = "idle" -> 8
      [] pc = "generate" -> 7
      [] pc = "carve" -> 6
      [] pc = "loops" -> 5
      [] pc = "scan" -> 4
      [] pc = "shuffle" -> 3
      [] pc \in {"obstacles", "try"} -> 2
      [] pc = "collect" -> 1
      [] OTHER -> 0

\* candidates in the pool when the placement began
PoolSize == Len(possible_obstacle_locs) + Len(obstacles)

\* what is left to do inside the stage
StageWork ==
    CASE pc = "carve" -> Cardinality(walls)
      [] pc = "loops" -> num_loops_to_create - loops_done
      [] pc = "obstacles" -> (num_obstacles - slot) * (PoolSize + 2)
      [] pc = "try" ->
             (num_obstacles - slot - 1) * (PoolSize + 2) + tries + 1
      [] OTHER -> 0

\* every step either moves to a later stage or leaves less work in the stage
Progress ==
    \/ Stage' < Stage
    \/ Stage' = Stage /\ StageWork' < StageWork

\* the search a step of the inner loop is about to run, as it ends
SearchOfTry ==
    BreadthFirst(layout,
                 Range(Append(obstacles, Head(possible_obstacle_locs))),
                 SearchStart(player_pos))

\* the search of the collectible placement, as it ends
SearchOfCollect ==
    BreadthFirst(layout, Range(obstacles), SearchStart(player_pos))

SearchEndedWell(st) ==
    /\ st.queue = <<>>
    /\ NoDuplicates(st.popped)
    /\ Range(st.popped) \subseteq GridCoords(layout)

\* a call that is not over can take its next step; where that step runs a
\* search, the step is possible when pop(0) has a candidate to take and the
\* search comes to an end
CanStep ==
    CASE pc = "try" /\ tries > 0 ->
             possible_obstacle_locs # <<>> /\ SearchOfTry.queue = <<>>
      [] pc = "collect" -> SearchOfCollect.queue = <<>>
      [] OTHER -> ENABLED Next

\* C16: a call of create_randomized_level or generate always comes to its
\* end: every step moves the call to a later stage or reduces the work left
\* in its stage, both natural numbers, and a call that is not over can always
\* take a step; a slot starts with as many tries as the pool holds and never
\* has more tries left than that; each reachability search ends on an empty
\* queue having taken each tile from the queue at most once.
C16_Terminates ==
    /\ [][Progress]_vars
    /\ [](Stage \in 0..8 /\ StageWork \in Nat)
    /\ [](~Done => CanStep)
    /\ [][(pc = "obstacles" /\ pc' = "try") =>
              tries' = Len(possible_obstacle_locs)]_vars
    /\ [](pc = "try" => tries <= Len(possible_obstacle_locs))
    /\ []((pc = "try" /\ tries > 0) => SearchEndedWell(SearchOfTry))
    /\ [](pc = "collect" => SearchEndedWell(SearchOfCollect))

\* C16 witness: a slot has used up all its tries, every candidate of a pool of
\* several having been rejected.
C16_Witness ==
    /\ pc = "try"
    /\ tries = 0
    /\ Len(possible_obstacle_locs) > 1
    /\ \A pos \in Range(possible_obstacle_locs) :
          ~ExitReachableWith(Append(obstacles, pos))


(* ================== properties of _find_reachable_nodes ================ *)
SearchReturned == pc = "returned" /\ call.fn = "_find_reachable_nodes"

Diagonal(a, b) ==
    /\ (a[1] = b[1] + 1 \/ b[1] = a[1] + 1)
    /\ (a[2] = b[2] + 1 \/ b[2] = a[2] + 1)

\* C17: for every rectangular grid, start inside it and obstacle list,
\* _find_reachable_nodes returns the start together with exactly the tiles
\* of the grid that side steps over tiles that are neither Wall nor blocked
\* lead to from the start; no coordinate outside the grid is returned.
C17_SearchExact ==
    SearchReturned =>
        /\ result.visited =
               ReachableFrom(call.layout, call.start_pos,
                             Range(call.obstacles))
        /\ call.start_pos \in result.visited
        /\ result.visited \subseteq GridCoords(call.layout)

\* C17 witness: a search with a blocked tile that returned several tiles and
\* left out an open, unblocked tile lying diagonally next to a returned one.
C17_Witness ==
    /\ SearchReturned
    /\ call.obstacles # <<>>
    /\ Cardinality(result.visited) > 2
    /\ \E t \in NonWallTiles(call.layout) \ Range(call.obstacles) :
          /\ t \notin result.visited
          /\ \E u \in result.visited : Diagonal(u, t)


(* ===================== properties of the disjoint sets ================= *)
\* the root of a cell's tree, found by following the parent links and
\* changing none
RECURSIVE RootOf(_, _)
RootOf(parent, cell) ==
    IF parent[cell] = cell THEN cell ELSE RootOf(parent, parent[cell])

ClassOf(parent, cell) ==
    {c \in DOMAIN parent : RootOf(parent, c) = RootOf(parent, cell)}

\* the partition of the cells into connectivity classes
Classes(parent) == {ClassOf(parent, c) : c \in DOMAIN parent}

\* a step of phase 1: _unite_sets is called on the two cells of a wall
UniteStep == pc = "carve" /\ walls' # walls

\* what the call did, seen from the state before and the state after; the
\* result True shows as the carved wall, False as the wall put aside
UniteOutcome ==
    LET wall == CHOOSE w \in walls : w \notin walls'
        a == wall[1]
        b == wall[2]
        before == generator.parent
        after == generator'.parent
        returned_true == layout' # layout /\ remaining_walls' = remaining_walls
        returned_false ==
            layout' = layout /\ remaining_walls' = Append(remaining_walls, wall)
    IN /\ returned_true \/ returned_false
       /\ returned_true <=> RootOf(before, a) # RootOf(before, b)
       /\ returned_true =>
             /\ RootOf(after, a) = RootOf(after, b)
             /\ Cardinality(Classes(after)) = Cardinality(Classes(before)) - 1
             /\ Classes(after) =
                    (Classes(before) \ {ClassOf(before, a), ClassOf(before, b)})
                        \cup {ClassOf(before, a) \cup ClassOf(before, b)}
       /\ returned_false => Classes(after) = Classes(before)

\* C18: _unite_sets(a, b) returns True exactly when a and b had different
\* roots before the call; after True they share a root, their two classes have
\* become one and every other class is as it was; after False the partition
\* into classes is unchanged.
C18_UniteSets == [][UniteStep => UniteOutcome]_vars

\* C18 witness: phase 1 has merged two trees of more than one cell each (a
\* root of rank 2) and has had a wall rejected by a False result.
C18_Witness ==
    /\ pc = "carve"
    /\ remaining_walls # <<>>
    /\ \E c \in DOMAIN generator.rank : generator.rank[c] = 2


\* the cells on the parent path from a cell up to and including its root
RECURSIVE PathToRoot(_, _)
PathToRoot(parent, cell) ==
    IF parent[cell] = cell
    THEN {cell}
    ELSE {cell} \cup PathToRoot(parent, parent[cell])

DsuInUse == pc \in {"carve", "loops"} /\ generator # None

\* C19: on every parent map phase 1 produces and for every cell, _find_set
\* returns the root of the cell's tree, a cell that is its own parent;
\* afterwards every cell of the path from the cell to that root has the root
\* as its parent, every other parent link is as before, and every cell has
\* the root it had, so that the partition into classes is the same.
\* _find_set reads and writes parent only, so no rank can change.
C19_FindSet ==
    DsuInUse =>
        \A cell \in DOMAIN generator.parent :
            LET before == generator.parent
                f == _find_set(before, cell)
                r == f.ret
            IN /\ r = RootOf(before, cell)
               /\ before[r] = r
               /\ f.parent[r] = r
               /\ \A c \in PathToRoot(before, cell) : f.parent[c] = r
               /\ \A c \in DOMAIN before \ PathToRoot(before, cell) :
                     f.parent[c] = before[c]
               /\ DOMAIN f.parent = DOMAIN before
               /\ \A c \in DOMAIN before :
                     RootOf(f.parent, c) = RootOf(before, c)

\* C19 witness: a parent map in which some cell's parent is not a root, so
\* that _find_set on it has a link to compress.
C19_Witness ==
    /\ DsuInUse
    /\ \E cell \in DOMAIN generator.parent :
          LET up == generator.parent[cell]
          IN /\ generator.parent[up] # up
             /\ _find_set(generator.parent, cell).parent[cell] # up


(* ===================== properties of a perfect maze ==================== *)
\* the tiles standing for lattice cells: both coordinates odd
CellTiles(lay) == {t \in GridCoords(lay) : t[1] % 2 = 1 /\ t[2] % 2 = 1}

\* unordered pairs of side-adjacent open tiles
OpenLinks(lay) ==
    {pair \in SUBSET NonWallTiles(lay) :
        /\ Cardinality(pair) = 2
        /\ \E a, b \in pair : SideAdjacent(a, b)}

\* C20: with loop_probability 0 generate returns a perfect maze: on a
\* lattice of at least 2 cells every cell tile is open, exactly cells - 1
\* wall tiles between cells are open, the open tiles are connected and they
\* have one link fewer than tiles, that is, no cycle.
C20_PerfectMaze ==
    (GridReturned /\ call.loop_num = 0
        /\ Cardinality(CellTiles(result.grid)) >= 2) =>
        LET grid == result.grid
            cells == Cardinality(CellTiles(grid))
            open == NonWallTiles(grid)
        IN /\ CellTiles(grid) \subseteq open
           /\ Cardinality(open \ CellTiles(grid)) = cells - 1
           /\ \A s \in open : ReachableFrom(grid, s, {}) = open
           /\ Cardinality(OpenLinks(grid)) = Cardinality(open) - 1

\* C20 witness: a perfect maze on a lattice of at least 4 cells, where phase 1
\* had to reject a wall.
C20_Witness ==
    /\ GridReturned
    /\ call.loop_num = 0
    /\ Cardinality(CellTiles(result.grid)) >= 4
    /\ Cardinality(OpenLinks(result.grid)) =
           Cardinality(NonWallTiles(result.grid)) - 1


(* ================ properties of the start and the exit ================= *)
\* a comes no later than b when rows are read top to bottom and each row
\* left to right
RowMajorLeq(a, b) == a[2] < b[2] \/ (a[2] = b[2] /\ a[1] <= b[1])

Placed == pc \in {"shuffle", "obstacles", "try", "collect"}

\* C21: the start is the first and the exit the last open tile of the
\* generated grid in row-major order, from the moment they are placed to the
\* returned level, whatever the shuffle and the placement did afterwards.
C21_FirstAndLastPathTile ==
    /\ Placed =>
          \A t \in NonWallTiles(layout) :
              RowMajorLeq(player_pos, t) /\ RowMajorLeq(t, exit_pos)
    /\ Placed => layout[player_pos[2]][player_pos[1]] = P
                    /\ layout[exit_pos[2]][exit_pos[1]] = E
    /\ LevelReturned =>
          \A st \in TilesOf(result.layout, P), ex \in TilesOf(result.layout, E) :
              \A t \in NonWallTiles(result.layout) :
                  RowMajorLeq(st, t) /\ RowMajorLeq(t, ex)

\* C21 witness: a returned level with obstacles and collectibles placed, whose
\* exit lies in a later row and a later column than its start.
C21_Witness ==
    /\ LevelReturned
    /\ result.obstacles # <<>>
    /\ result.collectibles # <<>>
    /\ \E st \in TilesOf(result.layout, P), ex \in TilesOf(result.layout, E) :
          st[1] < ex[1] /\ st[2] < ex[2]


(* ================== properties of calls in succession ================== *)
\* nothing of an earlier call is left: every variable of the generator and
\* of the placement is as it was before the first call
NothingLeftOver ==
    /\ NoGen(generator, layout, walls, remaining_walls, num_loops_to_create,
             loops_done)
    /\ NoPlan(original_level, path_coords, player_pos, exit_pos,
              num_collectibles, num_obstacles, obstacles,
              possible_obstacle_locs, slot, tries)
    /\ call = NoCall
    /\ result = None
    /\ exception = ""

SlotWasExhausted ==
    /\ InPlacement
    /\ \/ pc = "try" /\ tries = 0
       \/ slot > Len(obstacles)

\* C23: once a slot has tried every candidate without committing one, the
\* obstacle list stays as it is through that slot and every later slot, and
\* it is the obstacle list of the returned level.
C23_NoObstacleAfterExhaustedSlot ==
    [][SlotWasExhausted =>
          \/ SlotWasExhausted' /\ obstacles' = obstacles
          \/ pc' = "returned" /\ result' # None
                /\ result'.obstacles = obstacles]_vars

\* C23 witness: after a slot that committed nothing, a later slot is trying
\* the candidates again.
C23_Witness ==
    /\ pc = "try"
    /\ slot > Len(obstacles)
    /\ tries > 0
    /\ \A pos \in Range(possible_obstacle_locs) :
          ~ExitReachableWith(Append(obstacles, pos))


(* ===================== properties of the loop phase ==================== *)
\* the lattice of a grid: one cell per tile with two odd coordinates
LatticeWidth(lay) == IF PyLen(lay) = 0 THEN 0 ELSE PyLen(lay[0]) \div 2
LatticeHeight(lay) == PyLen(lay) \div 2

\* pairs of lattice-adjacent cells
LatticeEdges(lay) ==
    IF LatticeWidth(lay) = 0 \/ LatticeHeight(lay) = 0
    THEN 0
    ELSE LatticeWidth(lay) * (LatticeHeight(lay) - 1)
            + LatticeHeight(lay) * (LatticeWidth(lay) - 1)

\* R: the edges the carving phase rejects on a lattice that has cells
RejectedEdges(lay) ==
    LatticeEdges(lay) - (LatticeWidth(lay) * LatticeHeight(lay) - 1)

\* the open tiles that are not cell tiles
OpenMidpoints(lay) == NonWallTiles(lay) \ CellTiles(lay)

\* the tile between the two cells <<r, c>> of a wall, as <<x, y>>
MidpointOf(wall) ==
    <<wall[1][2] + wall[2][2] + 1, wall[1][1] + wall[2][1] + 1>>

ChangedTiles ==
    {t \in GridCoords(layout) : layout'[t[2]][t[1]] # layout[t[2]][t[1]]}

\* C24: with R edges rejected by the carving phase and loop_probability
\* num/LoopDen, the loop phase is set to open floor(R * num / LoopDen)
\* midpoints and a returned grid has that many open midpoints beyond the
\* cells - 1 of the carving phase; every step of the loop phase changes one
\* tile only, the still closed midpoint of an edge of the rejected list, which
\* leaves the list.
C24_LoopCount ==
    /\ []((pc = "loops" /\ CellTiles(layout) # {}) =>
            /\ num_loops_to_create =
                   (RejectedEdges(layout) * call.loop_num) \div LoopDen
            /\ Len(remaining_walls) + loops_done = RejectedEdges(layout)
            /\ NoDuplicates(remaining_walls)
            /\ \A wall \in Range(remaining_walls) :
                   MidpointOf(wall) \notin NonWallTiles(layout)
            /\ Cardinality(OpenMidpoints(layout)) =
                   Cardinality(CellTiles(layout)) - 1 + loops_done)
    /\ []((GridReturned /\ CellTiles(result.grid) # {}) =>
            Cardinality(OpenMidpoints(result.grid)) =
                Cardinality(CellTiles(result.grid)) - 1
                  + (RejectedEdges(result.grid) * call.loop_num) \div LoopDen)
    /\ [][(pc = "loops" /\ pc' = "loops") =>
            \/ layout' = layout
            \/ \E wall \in Range(remaining_walls) :
                  /\ ChangedTiles = {MidpointOf(wall)}
                  /\ layout'[MidpointOf(wall)[2]][MidpointOf(wall)[1]] = PATH
                  /\ wall \notin Range(remaining_walls')
                  /\ Len(remaining_walls') = Len(remaining_walls) - 1]_vars

\* C24 witness: a returned grid for which two edges were rejected and the
\* loop phase, at loop_probability 1/2, opened one of them.
C24_Witness ==
    /\ GridReturned
    /\ call.loop_num = 2
    /\ RejectedEdges(result.grid) = 2
    /\ Cardinality(OpenMidpoints(result.grid)) =
           Cardinality(CellTiles(result.grid))


(* ==================== properties of the grid's shape =================== *)
\* the tiles lying between two lattice-adjacent cells: one coordinate odd,
\* the other even and strictly inside the grid
MidpointTiles(lay) ==
    {t \in GridCoords(lay) :
        \/ /\ t[1] % 2 = 0 /\ t[2] % 2 = 1
           /\ t[1] >= 2 /\ t[1] <= PyLen(lay[0]) - 3
        \/ /\ t[1] % 2 = 1 /\ t[2] % 2 = 0
           /\ t[2] >= 2 /\ t[2] <= PyLen(lay) - 3}

BorderTiles(lay) ==
    {t \in GridCoords(lay) :
        \/ t[1] = 0 \/ t[1] = PyLen(lay[0]) - 1
        \/ t[2] = 0 \/ t[2] = PyLen(lay) - 1}

\* generate() has handed its grid back and nothing was written into it yet
FreshGrid == GridReturned \/ pc = "scan"

\* C25: in a grid returned by generate for a lattice of at least 2 cells,
\* every tile with two odd coordinates is Path, every other open tile lies
\* between two lattice-adjacent cells, and so the border and every tile with
\* two even coordinates are Wall.
C25_GridShape ==
    (FreshGrid /\ Cardinality(CellTiles(GeneratedGrid)) >= 2) =>
        LET grid == GeneratedGrid
        IN /\ \A t \in CellTiles(grid) : grid[t[2]][t[1]] = PATH
           /\ OpenMidpoints(grid) \subseteq MidpointTiles(grid)
           /\ \A t \in BorderTiles(grid) : grid[t[2]][t[1]] = W
           /\ \A t \in GridCoords(grid) :
                 (t[1] % 2 = 0 /\ t[2] % 2 = 0) => grid[t[2]][t[1]] = W
           /\ \A t \in GridCoords(grid) : grid[t[2]][t[1]] \in {W, PATH}

\* C25 witness: a returned grid on the 3 by 2 lattice in which a loop was
\* opened and a tile between two adjacent cells is still Wall.
C25_Witness ==
    /\ GridReturned
    /\ Cardinality(CellTiles(result.grid)) = 6
    /\ Cardinality(OpenMidpoints(result.grid)) > 5
    /\ MidpointTiles(result.grid) \ NonWallTiles(result.grid) # {}


(* =================== properties of the carving phase =================== *)
\* the carving phase has gone through the whole wall list
CarvingOver == pc = "carve" /\ walls = {} /\ Cells(generator) # {}

\* the walls whose midpoint tile is open
OpenedWalls ==
    {wall \in AllWalls(generator) :
        MidpointOf(wall) \in NonWallTiles(layout)}

\* C26: when the carving phase has processed every wall, _find_set gives the
\* same root for all cells, cells - 1 walls were accepted (their midpoints
\* are the open ones), and the walls not accepted are exactly the entries of
\* the rejected list, each once.
C26_SpanningTree ==
    CarvingOver =>
        /\ \A c1, c2 \in Cells(generator) :
              _find_set(generator.parent, c1).ret =
                  _find_set(generator.parent, c2).ret
        /\ Cardinality(OpenedWalls) = Cardinality(Cells(generator)) - 1
        /\ Range(remaining_walls) = AllWalls(generator) \ OpenedWalls
        /\ NoDuplicates(remaining_walls)

\* C26 witness: the carving phase is over on the 3 by 2 lattice, two walls
\* rejected.
C26_Witness ==
    /\ CarvingOver
    /\ Cardinality(Cells(generator)) = 6
    /\ Len(remaining_walls) = 2
    /\ Cardinality(OpenedWalls) = 5


(* ===================== properties of union by rank ===================== *)
\* what a call of _unite_sets on the two cells of a wall did to parent and
\* rank, seen from the state before and the state after
RankOutcome ==
    LET wall == CHOOSE w \in walls : w \notin walls'
        before == generator.parent
        after == generator'.parent
        rank == generator.rank
        ra == RootOf(before, wall[1])
        rb == RootOf(before, wall[2])
        low == IF rank[ra] < rank[rb] THEN ra ELSE rb
        high == IF rank[ra] < rank[rb] THEN rb ELSE ra
    IN /\ ra = rb => generator'.rank = rank
       /\ (ra # rb /\ rank[ra] # rank[rb]) =>
             /\ after[low] = high
             /\ after[high] = high
             /\ generator'.rank = rank
       /\ (ra # rb /\ rank[ra] = rank[rb]) =>
             \E top \in {ra, rb} :
                 /\ after[top] = top
                 /\ \A r \in {ra, rb} : after[r] = top
                 /\ generator'.rank = [rank EXCEPT ![top] = rank[top] + 1]

RankGrowsUpwards ==
    \A x \in DOMAIN generator.parent :
        generator.parent[x] # x =>
            generator.rank[x] < generator.rank[generator.parent[x]]

\* C27: a successful _unite_sets hangs the root of strictly lower rank under
\* the other and changes no rank; with equal ranks one root becomes the
\* parent and its rank alone rises, by 1; an unsuccessful one changes no
\* rank.  Throughout generate, every cell that is not a root has a rank
\* below its parent's.
C27_UnionByRank ==
    /\ [][UniteStep => RankOutcome]_vars
    /\ [](DsuInUse => RankGrowsUpwards)

\* C27 witness: a root of rank 1 with two children: after a union of equal
\* ranks it took in a root of lower rank.
C27_Witness ==
    /\ pc = "carve"
    /\ \E r \in DOMAIN generator.parent :
          /\ generator.rank[r] = 1
          /\ Cardinality({c \in DOMAIN generator.parent :
                             generator.parent[c] = r}) >= 3


(* ============== the DSU partition and the grid's connectivity ========== *)
\* the tile of a lattice cell (row, col), as (x, y)
TileOfCell(cell) == <<2 * cell[2] + 1, 2 * cell[1] + 1>>

\* two tiles are joined by a path of Path tiles
Joined(lay, a, b) ==
    /\ a \in NonWallTiles(lay)
    /\ b \in ReachableFrom(lay, a, {})

\* C28: after every processed wall of phase 1 and after every opened loop of
\* phase 2, two different lattice cells have the same DSU representative
\* exactly when their tiles are joined by a path of Path tiles in the grid.
\* Both relations are equivalences, so it is enough to compare, for every
\* representative, its class with the cells its tile is joined to.
C28_PartitionIsConnectivity ==
    DsuInUse =>
        \A c1 \in Cells(generator) :
            RootOf(generator.parent, c1) = c1 =>
                LET class == ClassOf(generator.parent, c1)
                    reach == IF TileOfCell(c1) \in NonWallTiles(layout)
                             THEN ReachableFrom(layout, TileOfCell(c1), {})
                             ELSE {}
                IN \A c2 \in Cells(generator) \ {c1} :
                       (c2 \in class) <=> (TileOfCell(c2) \in reach)

\* C28 witness: in the middle of phase 1 two classes of two or more cells each
\* stand side by side, so that both directions of the equivalence are at work.
C28_Witness ==
    /\ pc = "carve"
    /\ walls # {}
    /\ \E c1, c2, c3, c4 \in Cells(generator) :
          /\ c1 # c2 /\ c3 # c4
          /\ RootOf(generator.parent, c1) = RootOf(generator.parent, c2)
          /\ RootOf(generator.parent, c3) = RootOf(generator.parent, c4)
          /\ RootOf(generator.parent, c1) # RootOf(generator.parent, c3)
          /\ Joined(layout, TileOfCell(c1), TileOfCell(c2))
          /\ ~Joined(layout, TileOfCell(c1), TileOfCell(c3))


(* ================= the corners of the returned level =================== *)
\* C29: in every returned level the start is the tile (1, 1) and the exit the
\* tile (width - 2, height - 2) of the returned grid, and no other tile is a
\* start or an exit, whatever the walls' order, the shuffle and the placement.
C29_OppositeCorners ==
    LevelReturned =>
        LET lay == result.layout
            height == PyLen(lay)
            width == PyLen(lay[0])
        IN /\ TilesOf(lay, P) = {<<1, 1>>}
           /\ TilesOf(lay, E) = {<<width - 2, height - 2>>}

\* C29 witness: a returned level on a grid of 5 by 5 tiles, with the exit at
\* (3, 3), after an obstacle was placed.
C29_Witness ==
    /\ LevelReturned
    /\ PyLen(result.layout) = 5
    /\ PyLen(result.layout[0]) = 5
    /\ result.layout[3][3] = E
    /\ Len(result.obstacles) = 1


(* ===================== the flow when no level comes ==================== *)
\* a transition of the controller that asked for a level gets none back
NoLevelComesBack ==
    /\ manager.running # ""
    /\ pc = "returned"
    /\ result = None
    /\ manager'.running = ""

\* C30: when create_randomized_level returns no level, the controller ends
\* the transition that asked for it (_start_new_game or ENTER in
\* LEVEL_COMPLETE) in state VICTORY.
C30_NoLevelEndsInVictory ==
    [][NoLevelComesBack => manager'.state = "VICTORY"]_vars

=============================================================================
